---- MODULE Spec2Model ----
(***************************************************************************)
(* Model of addon/io_scs_tools/utils/curve.py: direction decomposition,    *)
(* cubic Bezier evaluation, arc-length estimation, curve discretisation,   *)
(* planar chord intersection and the batch curve classification.           *)
(*                                                                         *)
(* Numbers.  The Python code computes in floating point.  The model        *)
(* computes the same expressions exactly, over rationals: a rational is a  *)
(* record [num, den] in lowest terms with den > 0, a point evaluated on a  *)
(* curve is a record [v, den] (the vector v / den).  Rounding of the       *)
(* floating-point operations is modelled in set_direction's sums of lines  *)
(* 98 and 100 only.                                                        *)
(*                                                                         *)
(* Each function of the module is a call frame (a record-valued variable   *)
(* holding the function's arguments, locals and position pc); a frame      *)
(* that is not part of the specification at hand stays Idle.               *)
(***************************************************************************)
EXTENDS Integers, Sequences, FiniteSets, TLC

VARIABLES
    intersectCall,   \* frame of curves_intersect
    classifyCall,    \* frame of compute_curve_intersections
    curveCall,       \* frame of compute_curve
    lengthCall,      \* frame of compute_smooth_curve_length
    smoothCall,      \* frame of smooth_curve
    directionCall    \* frame of set_direction

vars == <<intersectCall, classifyCall, curveCall, lengthCall, smoothCall, directionCall>>

Idle == [pc |-> "idle"]

(***************************************************************************)
(* Bounds of the model.                                                    *)
(***************************************************************************)
MaxPartCount == 3

(***************************************************************************)
(* Exact arithmetic.                                                       *)
(***************************************************************************)
Abs(x) == IF x < 0 THEN -x ELSE x

RECURSIVE GCD(_, _)
GCD(a, b) == IF b = 0 THEN a ELSE GCD(b, a % b)

\* The quotient n / d (d # 0), in lowest terms with a positive denominator.
Rat(n, d) ==
    LET g == GCD(Abs(n), Abs(d))
        s == IF d < 0 THEN -1 ELSE 1
    IN  [num |-> (s * n) \div g, den |-> (s * d) \div g]

Zero == [num |-> 0, den |-> 1]

RatAdd(a, b) == Rat(a.num * b.den + b.num * a.den, a.den * b.den)

\* a / k for a rational a and an integer k # 0.
RatDivInt(a, k) == Rat(a.num, a.den * k)

RatLess(a, b) == a.num * b.den < b.num * a.den

Cube(n) == n * n * n

VecAdd(a, b) == [k \in 1..3 |-> a[k] + b[k]]
VecSub(a, b) == [k \in 1..3 |-> a[k] - b[k]]

\* compute_bernstein with the factor q missing in f3.
compute_bernstein_f3(float_t) ==
    LET t == float_t.num
        q == float_t.den - float_t.num
    IN  <<q * q * q, 3 * t * q * q, 3 * t * t * float_t.den, t * t * t>>

(***************************************************************************)
(* compute_bernstein: the four cubic Bernstein weights at float_t, as      *)
(* numerators over float_t.den^3.                                          *)
(***************************************************************************)
compute_bernstein(float_t) ==
    LET t == float_t.num
        q == float_t.den - float_t.num
    IN  <<q * q * q, 3 * t * q * q, 3 * t * t * q, t * t * t>>

(***************************************************************************)
(* evaluate_bezier_curve: the point of the cubic Bezier curve with control *)
(* points vec1..vec4 at float_t.                                           *)
(***************************************************************************)
evaluate_bezier_curve(vec1, vec2, vec3, vec4, float_t) ==
    LET c == compute_bernstein(float_t)
    IN  [v   |-> [k \in 1..3 |-> c[1] * vec1[k] + c[2] * vec2[k]
                                 + c[3] * vec3[k] + c[4] * vec4[k]],
         den |-> Cube(float_t.den)]

(***************************************************************************)
(* smooth_curve: the control polygon of two waypoints and their tangents,  *)
(* evaluated at coef.                                                      *)
(***************************************************************************)
smooth_curve(point1, tang1, point2, tang2, coef) ==
    LET pp1 == point1
        pp2 == VecAdd(point1, tang1)
        pp3 == VecSub(point2, tang2)
        pp4 == point2
    IN  evaluate_bezier_curve(pp1, pp2, pp3, pp4, coef)

\* The numerators of point p over the denominator scale (p.den divides
\* scale whenever the parameter of p is a multiple of 1/part_count and
\* scale is part_count^3).
AtScale(p, scale) ==
    IF scale % p.den = 0
    THEN [k \in 1..3 |-> p.v[k] * (scale \div p.den)]
    ELSE [k \in 1..3 |-> (p.v[k] * scale) \div p.den]

(***************************************************************************)
(* The navigation curve sections read by curves_intersect and              *)
(* compute_curve_intersections: "Length", the "Bezier" section's "Start"   *)
(* and "End" ("Position", "Direction"), "NextCurves" and "PrevCurves".     *)
(***************************************************************************)
Section(name, length, p1, d1, p2, d2, next, prev) ==
    [name |-> name, Length |-> length,
     Start |-> [Position |-> p1, Direction |-> d1],
     End   |-> [Position |-> p2, Direction |-> d2],
     NextCurves |-> next, PrevCurves |-> prev]

NavCurves ==
    { Section("H",  4, <<-2, 0, 0>>,  <<1, 0, 0>>, <<2, 0, 0>>,  <<1, 0, 0>>,  -1, -1),
      Section("V",  3, <<0, 0, -2>>,  <<0, 0, 1>>, <<0, 0, 2>>,  <<0, 0, 1>>,   1, -1),
      Section("T", -2, <<-2, 0, 0>>,  <<0, 0, 1>>, <<-2, 0, 3>>, <<0, 0, 1>>,  -1,  0),
      Section("A",  6, <<-2, 0, 0>>,  <<0, 0, 2>>, <<2, 0, 0>>,  <<0, 0, -2>>,  2,  3),
      Section("Ay", 6, <<-2, 1, 0>>,  <<0, 0, 2>>, <<2, 1, 0>>,  <<0, 0, -2>>, -1, -1),
      Section("S",  7, <<-2, 0, 0>>,  <<0, 0, 3>>, <<2, 0, 0>>,  <<0, 0, 3>>,   0, -1),
      Section("E",  5, <<2, 0, -2>>,  <<0, 0, 1>>, <<2, 0, 2>>,  <<0, 0, 1>>,  -1,  1),
      Section("P",  4, <<-2, 3, 1>>,  <<1, 0, 0>>, <<2, 3, 1>>,  <<1, 0, 0>>,   4,  4),
      Section("U",  5, <<-1, 0, 2>>,  <<0, 0, -3>>, <<1, 0, 2>>, <<0, 0, 3>>,   1,  2),
      Section("Z",  0, <<0, 0, -1>>,  <<1, 0, 0>>, <<0, 0, 1>>,  <<1, 0, 0>>,  -1, -1) }

(***************************************************************************)
(* curves_intersect                                                        *)
(***************************************************************************)
\* part_count=10, the default of curves_intersect.
DefaultPartCount == 10

\* epsilon = 0.01 = 1 / epsilon_inv.
epsilon_inv == 100

\* a / b < epsilon for integers a and b > 0.  100 * a < b is a < b / 100,
\* which for an integer a is a < ceiling(b / 100).
LessThanEpsilon(a, b) == a < (b + epsilon_inv - 1) \div epsilon_inv

\* The chord end on a curve at position pos of length (lines 285-286, 298-299).
ChordPoint(c, pos, length, part_count) ==
    AtScale(smooth_curve(c.Start.Position, c.Start.Direction,
                         c.End.Position, c.End.Direction,
                         RatDivInt(pos, length)),
            Cube(part_count))

\* Lines 303-305, on numerators over part_count^3 (the scale cancels in
\* mu_a and mu_b, and denom is over part_count^6).
Denom(start1, end1, start2, end2) ==
    ((end2[3] - start2[3]) * (end1[1] - start1[1]))
    - ((end2[1] - start2[1]) * (end1[3] - start1[3]))

NumeA(start1, end1, start2, end2) ==
    ((end2[1] - start2[1]) * (start1[3] - start2[3]))
    - ((end2[3] - start2[3]) * (start1[1] - start2[1]))

NumeB(start1, end1, start2, end2) ==
    ((end1[1] - start1[1]) * (start1[3] - start2[3]))
    - ((end1[3] - start1[3]) * (start1[1] - start2[1]))

\* abs(denom) < epsilon (line 307).
IsParallel(denom, part_count) ==
    LessThanEpsilon(Abs(denom), Cube(part_count) * Cube(part_count))

\* mu_a < 0 or mu_a > 1 or mu_b < 0 or mu_b > 1 (line 312).
OutOfRange(mu_a, mu_b) ==
    \/ mu_a.num < 0
    \/ mu_a.num > mu_a.den
    \/ mu_b.num < 0
    \/ mu_b.num > mu_b.den

\* The two boundary conditions of lines 315 and 317.
TouchesBoundary(mu_a, mu_b, i, j, part_count) ==
    \/ (LessThanEpsilon(mu_a.num, mu_a.den) /\ i = 0)
    \/ (LessThanEpsilon(mu_b.num, mu_b.den) /\ j = 0)
    \/ (LessThanEpsilon(mu_a.den - mu_a.num, mu_a.den) /\ i = part_count - 1)
    \/ (LessThanEpsilon(mu_b.den - mu_b.num, mu_b.den) /\ j = part_count - 1)

NoPoint == [kind |-> "None"]

\* IntersectionPoint with y taken from curve1's chord alone.
IntersectionPointOwnChordY(start1, end1, start2, end2, mu_a, part_count) ==
    LET scale == Cube(part_count)
    IN  [kind |-> "Vector",
         x |-> Rat(start1[1] * mu_a.den + mu_a.num * (end1[1] - start1[1]),
                   scale * mu_a.den),
         y |-> Rat(start1[2] + end1[2], 2 * scale),
         z |-> Rat(start1[3] * mu_a.den + mu_a.num * (end1[3] - start1[3]),
                   scale * mu_a.den)]

\* Lines 320-323: x and z on curve1's chord at mu_a, y the mean of the four
\* chord ends' y.
IntersectionPoint(start1, end1, start2, end2, mu_a, part_count) ==
    LET scale == Cube(part_count)
    IN  [kind |-> "Vector",
         x |-> Rat(start1[1] * mu_a.den + mu_a.num * (end1[1] - start1[1]),
                   scale * mu_a.den),
         y |-> Rat(start1[2] + end1[2] + start2[2] + end2[2], 4 * scale),
         z |-> Rat(start1[3] * mu_a.den + mu_a.num * (end1[3] - start1[3]),
                   scale * mu_a.den)]

\* ChordPair with a boundary pair skipped instead of ending the call.
ChordPairBoundarySkips(start1, end1, start2, end2, i, j, part_count) ==
    LET denom  == Denom(start1, end1, start2, end2)
        nume_a == NumeA(start1, end1, start2, end2)
        nume_b == NumeB(start1, end1, start2, end2)
    IN  IF IsParallel(denom, part_count)
        THEN [do |-> "continue"]
        ELSE LET mu_a == Rat(nume_a, denom)
                 mu_b == Rat(nume_b, denom)
             IN  IF OutOfRange(mu_a, mu_b) \/ TouchesBoundary(mu_a, mu_b, i, j, part_count)
                 THEN [do |-> "continue"]
                 ELSE [do |-> "return",
                       value |-> IntersectionPoint(start1, end1, start2, end2,
                                                   mu_a, part_count)]

\* ChordPair with a parallel pair ending the call instead of being skipped.
ChordPairParallelEnds(start1, end1, start2, end2, i, j, part_count) ==
    LET denom  == Denom(start1, end1, start2, end2)
        nume_a == NumeA(start1, end1, start2, end2)
        nume_b == NumeB(start1, end1, start2, end2)
    IN  IF IsParallel(denom, part_count)
        THEN [do |-> "return", value |-> NoPoint]
        ELSE LET mu_a == Rat(nume_a, denom)
                 mu_b == Rat(nume_b, denom)
             IN  IF OutOfRange(mu_a, mu_b)
                 THEN [do |-> "continue"]
                 ELSE IF TouchesBoundary(mu_a, mu_b, i, j, part_count)
                      THEN [do |-> "return", value |-> NoPoint]
                      ELSE [do |-> "return",
                            value |-> IntersectionPoint(start1, end1, start2, end2,
                                                        mu_a, part_count)]

\* Lines 303-325 for one chord pair: "continue" with the next pair, or
\* "return" with a result.
ChordPair(start1, end1, start2, end2, i, j, part_count) ==
    LET denom  == Denom(start1, end1, start2, end2)
        nume_a == NumeA(start1, end1, start2, end2)
        nume_b == NumeB(start1, end1, start2, end2)
    IN  IF IsParallel(denom, part_count)
        THEN [do |-> "continue"]
        ELSE LET mu_a == Rat(nume_a, denom)
                 mu_b == Rat(nume_b, denom)
             IN  IF OutOfRange(mu_a, mu_b)
                 THEN [do |-> "continue"]
                 ELSE IF TouchesBoundary(mu_a, mu_b, i, j, part_count)
                      THEN [do |-> "return", value |-> NoPoint]
                      ELSE [do |-> "return",
                            value |-> IntersectionPoint(start1, end1, start2, end2,
                                                        mu_a, part_count)]

\* Advance with the position assigned the step instead of advanced by it.
AdvanceAssigns(pos, step) == step

\* pos2 after the chord pair (line 300), pos1 after the inner loop (line 327).
Advance(pos, step) == RatAdd(pos, step)

NoVec == <<0, 0, 0>>

\* The frame on entry; examined is the history of the chord pairs examined
\* so far, each with the curve parameters its four chord ends were taken at.
IntersectFrame(curve1, curve2, part_count) ==
    [pc |-> "start", curve1 |-> curve1, curve2 |-> curve2, part_count |-> part_count,
     step1 |-> Zero, step2 |-> Zero, pos1 |-> Zero, pos2 |-> Zero,
     i |-> 0, j |-> 0, start1 |-> NoVec, end1 |-> NoVec,
     result |-> NoPoint, examined |-> <<>>]

PartCounts == ((0 - MaxPartCount)..MaxPartCount) \cup {DefaultPartCount}

InitIntersect ==
    /\ intersectCall \in {IntersectFrame(c1, c2, n) : c1 \in NavCurves, c2 \in NavCurves,
                                                      n \in PartCounts}
    /\ classifyCall = Idle
    /\ curveCall = Idle
    /\ lengthCall = Idle
    /\ smoothCall = Idle
    /\ directionCall = Idle

othersOfIntersect == <<classifyCall, curveCall, lengthCall, smoothCall, directionCall>>

\* Lines 269-274 with part_count = 0: the division raises ZeroDivisionError.
IntersectSetupRaise ==
    /\ intersectCall.pc = "start"
    /\ intersectCall.part_count = 0
    /\ intersectCall' = [intersectCall EXCEPT !.pc = "raise"]
    /\ UNCHANGED othersOfIntersect

\* Lines 269-274.
IntersectSetup ==
    /\ intersectCall.pc = "start"
    /\ intersectCall.part_count # 0
    /\ intersectCall' = [intersectCall EXCEPT
            !.step1 = Rat(intersectCall.curve1.Length, intersectCall.part_count),
            !.step2 = Rat(intersectCall.curve2.Length, intersectCall.part_count),
            !.pos1 = Zero,
            !.i = 0,
            !.pc = "outer"]
    /\ UNCHANGED othersOfIntersect

\* Lines 276-288: the next chord of curve1.
IntersectOuter ==
    LET f == intersectCall
    IN  /\ f.pc = "outer"
        /\ f.i < f.part_count
        /\ f.curve1.Length # 0
        /\ intersectCall' = [f EXCEPT
                !.start1 = ChordPoint(f.curve1, f.pos1, f.curve1.Length, f.part_count),
                !.end1 = ChordPoint(f.curve1, RatAdd(f.pos1, f.step1), f.curve1.Length,
                                    f.part_count),
                !.pos2 = Zero,
                !.j = 0,
                !.pc = "inner"]
        /\ UNCHANGED othersOfIntersect

\* Line 285 with Length = 0: pos1 / length1 raises ZeroDivisionError.
IntersectOuterRaise ==
    LET f == intersectCall
    IN  /\ f.pc = "outer"
        /\ f.i < f.part_count
        /\ f.curve1.Length = 0
        /\ intersectCall' = [f EXCEPT !.pc = "raise"]
        /\ UNCHANGED othersOfIntersect

\* Line 329: the outer loop is exhausted.
IntersectExhausted ==
    LET f == intersectCall
    IN  /\ f.pc = "outer"
        /\ f.i >= f.part_count
        /\ intersectCall' = [f EXCEPT !.result = NoPoint, !.pc = "return"]
        /\ UNCHANGED othersOfIntersect

\* What lines 289-325 compute for the chord pair (i, j).
Examine(f) ==
    LET start2 == ChordPoint(f.curve2, f.pos2, f.curve2.Length, f.part_count)
        end2   == ChordPoint(f.curve2, RatAdd(f.pos2, f.step2), f.curve2.Length,
                             f.part_count)
    IN  [outcome |-> ChordPair(f.start1, f.end1, start2, end2, f.i, f.j, f.part_count),
         entry   |-> [i |-> f.i, j |-> f.j,
                      a0 |-> RatDivInt(f.pos1, f.curve1.Length),
                      a1 |-> RatDivInt(RatAdd(f.pos1, f.step1), f.curve1.Length),
                      b0 |-> RatDivInt(f.pos2, f.curve2.Length),
                      b1 |-> RatDivInt(RatAdd(f.pos2, f.step2), f.curve2.Length),
                      start1 |-> f.start1, end1 |-> f.end1,
                      start2 |-> start2, end2 |-> end2]]

\* Lines 289-313: the chord pair is skipped.
IntersectSkip ==
    LET f == intersectCall
    IN  /\ f.pc = "inner"
        /\ f.j < f.part_count
        /\ f.curve2.Length # 0
        /\ Examine(f).outcome.do = "continue"
        /\ intersectCall' = [f EXCEPT
                !.pos2 = Advance(f.pos2, f.step2),
                !.j = f.j + 1,
                !.examined = Append(f.examined, Examine(f).entry)]
        /\ UNCHANGED othersOfIntersect

\* Lines 289-325: the chord pair ends the call (None or a point).
IntersectReturn ==
    LET f == intersectCall
    IN  /\ f.pc = "inner"
        /\ f.j < f.part_count
        /\ f.curve2.Length # 0
        /\ Examine(f).outcome.do = "return"
        /\ intersectCall' = [f EXCEPT
                !.pos2 = Advance(f.pos2, f.step2),
                !.result = Examine(f).outcome.value,
                !.examined = Append(f.examined, Examine(f).entry),
                !.pc = "return"]
        /\ UNCHANGED othersOfIntersect

\* Line 298 with Length = 0: pos2 / length2 raises ZeroDivisionError.
IntersectInnerRaise ==
    LET f == intersectCall
    IN  /\ f.pc = "inner"
        /\ f.j < f.part_count
        /\ f.curve2.Length = 0
        /\ intersectCall' = [f EXCEPT !.pc = "raise"]
        /\ UNCHANGED othersOfIntersect

\* Line 327: the inner loop is exhausted.
IntersectInnerDone ==
    LET f == intersectCall
    IN  /\ f.pc = "inner"
        /\ f.j >= f.part_count
        /\ intersectCall' = [f EXCEPT
                !.pos1 = Advance(f.pos1, f.step1),
                !.i = f.i + 1,
                !.pc = "outer"]
        /\ UNCHANGED othersOfIntersect

NextIntersect ==
    \/ IntersectSetupRaise
    \/ IntersectSetup
    \/ IntersectOuter
    \/ IntersectOuterRaise
    \/ IntersectExhausted
    \/ IntersectSkip
    \/ IntersectReturn
    \/ IntersectInnerRaise
    \/ IntersectInnerDone

Spec == InitIntersect /\ [][NextIntersect]_vars

(***************************************************************************)
(* Properties of curves_intersect.                                         *)
(***************************************************************************)
MuA(e) == Rat(NumeA(e.start1, e.end1, e.start2, e.end2),
              Denom(e.start1, e.end1, e.start2, e.end2))
MuB(e) == Rat(NumeB(e.start1, e.end1, e.start2, e.end2),
              Denom(e.start1, e.end1, e.start2, e.end2))

\* The examined chord pair e passes the parallel test (|denom| >= 0.01) and
\* the range test (mu_a and mu_b in [0, 1]).
PassesParallelTest(e, n) ==
    ~ LessThanEpsilon(Abs(Denom(e.start1, e.end1, e.start2, e.end2)), Cube(n) * Cube(n))

PassesBothTests(e, n) ==
    /\ PassesParallelTest(e, n)
    /\ 0 <= MuA(e).num /\ MuA(e).num <= MuA(e).den
    /\ 0 <= MuB(e).num /\ MuB(e).num <= MuB(e).den

\* The crossing of e lies within 0.01 of the start of the first chord or of
\* the end of the last chord of either curve.
AtCurveBoundary(e, n) ==
    \/ (100 * MuA(e).num < MuA(e).den /\ e.i = 0)
    \/ (100 * MuB(e).num < MuB(e).den /\ e.j = 0)
    \/ (100 * MuA(e).num > 99 * MuA(e).den /\ e.i = n - 1)
    \/ (100 * MuB(e).num > 99 * MuB(e).den /\ e.j = n - 1)

\* The chord pair (i, j) of the two curves, its ends taken at the
\* parameters i/n, (i+1)/n, j/n and (j+1)/n.
PairAt(c1, c2, n, i, j) ==
    [i |-> i, j |-> j,
     start1 |-> ChordPoint(c1, Rat(i, n), 1, n),
     end1   |-> ChordPoint(c1, Rat(i + 1, n), 1, n),
     start2 |-> ChordPoint(c2, Rat(j, n), 1, n),
     end2   |-> ChordPoint(c2, Rat(j + 1, n), 1, n)]

Examined == intersectCall.examined
LastExamined == Examined[Len(Examined)]

\* C1: with part_count >= 1, a chord pair that passes the parallel and the
\* range test and whose crossing is at a curve boundary (mu_a < 0.01 on chord
\* i = 0, mu_b < 0.01 on chord j = 0, mu_a > 0.99 on chord i = part_count-1,
\* mu_b > 0.99 on chord j = part_count-1) ends the call with no-intersection:
\* it is the last pair examined and no point is returned.
C1_BoundaryEndsCall ==
    LET f == intersectCall
    IN  (f.pc # "idle" /\ f.part_count >= 1) =>
            \A k \in 1..Len(f.examined) :
                (PassesBothTests(f.examined[k], f.part_count)
                 /\ AtCurveBoundary(f.examined[k], f.part_count))
                => (k = Len(f.examined) /\ f.pc = "return" /\ f.result = NoPoint)

\* C1 witness: the call has ended with no-intersection on a boundary pair
\* although a later chord pair passes both tests away from the boundaries.
C1_Witness ==
    LET f == intersectCall
        n == f.part_count
    IN  /\ f.pc = "return"
        /\ n >= 1
        /\ Len(f.examined) >= 1
        /\ PassesBothTests(LastExamined, n)
        /\ AtCurveBoundary(LastExamined, n)
        /\ f.result = NoPoint
        /\ \E k \in (Len(f.examined) + 1)..(n * n) :
               LET e == PairAt(f.curve1, f.curve2, n, (k - 1) \div n, (k - 1) % n)
               IN  PassesBothTests(e, n) /\ ~ AtCurveBoundary(e, n)

\* C2: the chord pairs are examined in the order i ascending, j ascending
\* within i; every pair before the last examined one fails the parallel or
\* the range test; a call that returns before all part_count^2 pairs were
\* examined returns on a pair that passes both tests; a returned point is
\* the point of the last examined (hence first passing) pair; and when no
\* pair passes, no-intersection is returned after all part_count^2 pairs.
C2_FirstPassingPairDecides ==
    LET f == intersectCall
        n == f.part_count
    IN  (f.pc # "idle" /\ n >= 1) =>
          /\ \A k \in 1..Len(f.examined) :
                /\ f.examined[k].i = (k - 1) \div n
                /\ f.examined[k].j = (k - 1) % n
                /\ (k < Len(f.examined) => ~ PassesBothTests(f.examined[k], n))
          /\ (f.pc = "return" /\ Len(f.examined) < n * n) =>
                (Len(f.examined) >= 1 /\ PassesBothTests(LastExamined, n))
          /\ (f.pc = "return" /\ f.result # NoPoint) =>
                /\ Len(f.examined) >= 1
                /\ PassesBothTests(LastExamined, n)
                /\ f.result = IntersectionPoint(LastExamined.start1, LastExamined.end1,
                                                LastExamined.start2, LastExamined.end2,
                                                MuA(LastExamined), n)
          /\ (f.pc = "return"
              /\ \A k \in 1..Len(f.examined) : ~ PassesBothTests(f.examined[k], n)) =>
                (f.result = NoPoint /\ Len(f.examined) = n * n)

\* C2 witness: a point is returned after a parallel pair and an out-of-range
\* pair were skipped.
C2_Witness ==
    LET f == intersectCall
        n == f.part_count
    IN  /\ f.pc = "return"
        /\ n >= 1
        /\ f.result # NoPoint
        /\ \E k \in 1..(Len(f.examined) - 1) : ~ PassesParallelTest(f.examined[k], n)
        /\ \E k \in 1..(Len(f.examined) - 1) :
               PassesParallelTest(f.examined[k], n) /\ ~ PassesBothTests(f.examined[k], n)

\* Two curves with the same X/Z projection that differ by a constant
\* offset in Y.
SameProjection(c1, c2) ==
    /\ c1.Length = c2.Length
    /\ c1.Start.Direction = c2.Start.Direction
    /\ c1.End.Direction = c2.End.Direction
    /\ c1.Start.Position[1] = c2.Start.Position[1]
    /\ c1.Start.Position[3] = c2.Start.Position[3]
    /\ c1.End.Position[1] = c2.End.Position[1]
    /\ c1.End.Position[3] = c2.End.Position[3]
    /\ c1.Start.Position[2] - c2.Start.Position[2] = c1.End.Position[2] - c2.End.Position[2]
    /\ c1.Start.Position[2] # c2.Start.Position[2]

MeanOfFourY(e, n) == Rat(e.start1[2] + e.end1[2] + e.start2[2] + e.end2[2], 4 * Cube(n))

C10_ChordParameters ==
    LET f == intersectCall
        n == f.part_count
    IN  (f.pc # "idle" /\ n >= 1) =>
            \A k \in 1..Len(f.examined) :
                LET e == f.examined[k]
                    p == PairAt(f.curve1, f.curve2, n, e.i, e.j)
                IN  /\ e.a0 = Rat(e.i, n)
                    /\ e.a1 = Rat(e.i + 1, n)
                    /\ e.b0 = Rat(e.j, n)
                    /\ e.b1 = Rat(e.j + 1, n)
                    /\ e.start1 = p.start1
                    /\ e.end1 = p.end1
                    /\ e.start2 = p.start2
                    /\ e.end2 = p.end2

\* C10 witness: a chord pair with i >= 1 and j >= 2 examined, after skipped
\* pairs, on two curves of different Length.
C10_Witness ==
    LET f == intersectCall
    IN  /\ f.pc # "idle"
        /\ f.part_count >= 1
        /\ f.curve1.Length # f.curve2.Length
        /\ f.curve1.Length # 1
        /\ Len(f.examined) >= 1
        /\ LastExamined.i >= 1
        /\ LastExamined.j >= 2

(***************************************************************************)
(* curves_intersect as a function of its arguments, for its caller: the    *)
(* inner loop of lines 289-325 from chord j on, the outer loop of lines     *)
(* 276-329 from chord i on.                                                *)
(***************************************************************************)
RECURSIVE IntersectInnerLoop(_, _, _, _, _, _, _, _)
IntersectInnerLoop(curve1, curve2, part_count, i, j, start1, end1, pos2) ==
    LET step2 == Rat(curve2.Length, part_count)
    IN  IF j >= part_count THEN [do |-> "continue"]
        ELSE IF curve2.Length = 0 THEN [do |-> "raise"]
        ELSE LET start2 == ChordPoint(curve2, pos2, curve2.Length, part_count)
                 end2   == ChordPoint(curve2, RatAdd(pos2, step2), curve2.Length, part_count)
                 pair   == ChordPair(start1, end1, start2, end2, i, j, part_count)
             IN  IF pair.do = "continue"
                 THEN IntersectInnerLoop(curve1, curve2, part_count, i, j + 1,
                                         start1, end1, Advance(pos2, step2))
                 ELSE pair

RECURSIVE IntersectOuterLoop(_, _, _, _, _)
IntersectOuterLoop(curve1, curve2, part_count, i, pos1) ==
    LET step1 == Rat(curve1.Length, part_count)
    IN  IF i >= part_count THEN [do |-> "return", value |-> NoPoint]
        ELSE IF curve1.Length = 0 THEN [do |-> "raise"]
        ELSE LET start1 == ChordPoint(curve1, pos1, curve1.Length, part_count)
                 end1   == ChordPoint(curve1, RatAdd(pos1, step1), curve1.Length, part_count)
                 inner  == IntersectInnerLoop(curve1, curve2, part_count, i, 0,
                                              start1, end1, Zero)
             IN  IF inner.do = "continue"
                 THEN IntersectOuterLoop(curve1, curve2, part_count, i + 1,
                                         Advance(pos1, step1))
                 ELSE inner

curves_intersect(curve1, curve2, part_count) ==
    IF part_count = 0
    THEN [do |-> "raise"]
    ELSE IntersectOuterLoop(curve1, curve2, part_count, 0, Zero)

\* The stepwise call and the function agree on how the call ends.
IntersectCallIsFunction ==
    LET f == intersectCall
        r == curves_intersect(f.curve1, f.curve2, f.part_count)
    IN  /\ f.pc = "return" => (r.do = "return" /\ r.value = f.result)
        /\ f.pc = "raise" => r.do = "raise"

(***************************************************************************)
(* compute_curve_intersections                                             *)
(***************************************************************************)
MaxCurves == 3

ClassifyCurves == {c \in NavCurves : c.name \in {"H", "V", "T", "A", "Z"}}

SeqsUpTo(S, n) == UNION {[1..k -> S] : k \in 0..n}

\* IsStart reading "PrevCurves".
IsStartByPrev(nav_curve_section) == nav_curve_section.PrevCurves # -1

\* Line 342.
IsStart(nav_curve_section) == nav_curve_section.NextCurves # -1

\* Line 344.
IsEnd(nav_curve_section) == nav_curve_section.PrevCurves # -1

\* range(nav_curve_section_i + 1, ...) with the + 1 left out.
FirstCurveIndexSelf(nav_curve_section_i) == nav_curve_section_i

\* The first curve_index of range(nav_curve_section_i + 1, ...), line 346.
FirstCurveIndex(nav_curve_section_i) == nav_curve_section_i + 1

\* "if curve_intersect:" (line 350): None is false; a mathutils Vector is a
\* sequence of three components and true whatever their values.
Truthy(value) == value.kind = "Vector"

\* The frame on entry. Indexes count from 0 as in the code; calls is the
\* history of the calls of curves_intersect: the two indexes and the result.
ClassifyFrame(nav_curve_sections) ==
    [pc |-> "for_section", nav_curve_sections |-> nav_curve_sections,
     nav_curve_section_i |-> 0, curve_index |-> 0,
     curve_intersect |-> NoPoint,
     curve_dict |-> [START |-> <<>>, END |-> <<>>, CROSS |-> <<>>],
     calls |-> <<>>]

InitClassify ==
    /\ classifyCall \in {ClassifyFrame(s) : s \in SeqsUpTo(ClassifyCurves, MaxCurves)}
    /\ intersectCall = Idle
    /\ curveCall = Idle
    /\ lengthCall = Idle
    /\ smoothCall = Idle
    /\ directionCall = Idle

othersOfClassify == <<intersectCall, curveCall, lengthCall, smoothCall, directionCall>>

\* Lines 341-345: the next curve, tagged START and END.
ClassifyTag ==
    LET f == classifyCall
        nav_curve_section == f.nav_curve_sections[f.nav_curve_section_i + 1]
    IN  /\ f.pc = "for_section"
        /\ f.nav_curve_section_i < Len(f.nav_curve_sections)
        /\ classifyCall' = [f EXCEPT
                !.curve_dict.START =
                    IF IsStart(nav_curve_section)
                    THEN Append(@, <<nav_curve_section, "None", 0>>) ELSE @,
                !.curve_dict.END =
                    IF IsEnd(nav_curve_section)
                    THEN Append(@, <<nav_curve_section, "None", 0>>) ELSE @,
                !.curve_index = FirstCurveIndex(f.nav_curve_section_i),
                !.pc = "for_pair"]
        /\ UNCHANGED othersOfClassify

\* Line 348: the call of curves_intersect for the pair at hand, with the
\* default part_count; an exception it raises ends this call too.
ClassifyCall ==
    LET f == classifyCall
        r == curves_intersect(f.nav_curve_sections[f.nav_curve_section_i + 1],
                              f.nav_curve_sections[f.curve_index + 1], DefaultPartCount)
    IN  /\ f.pc = "for_pair"
        /\ f.curve_index < Len(f.nav_curve_sections)
        /\ classifyCall' =
                IF r.do = "raise"
                THEN [f EXCEPT !.pc = "raise"]
                ELSE [f EXCEPT
                        !.curve_intersect = r.value,
                        !.calls = Append(@, [i |-> f.nav_curve_section_i,
                                             j |-> f.curve_index,
                                             result |-> r.value]),
                        !.pc = "if_cross"]
        /\ UNCHANGED othersOfClassify

\* Lines 350-351: the pair crosses.
ClassifyCross ==
    LET f == classifyCall
    IN  /\ f.pc = "if_cross"
        /\ Truthy(f.curve_intersect)
        /\ classifyCall' = [f EXCEPT
                !.curve_dict.CROSS =
                    Append(@, <<f.nav_curve_sections[f.nav_curve_section_i + 1],
                                f.nav_curve_sections[f.curve_index + 1],
                                f.curve_intersect>>),
                !.curve_index = f.curve_index + 1,
                !.pc = "for_pair"]
        /\ UNCHANGED othersOfClassify

\* Line 350: the pair does not cross.
ClassifyNoCross ==
    LET f == classifyCall
    IN  /\ f.pc = "if_cross"
        /\ ~ Truthy(f.curve_intersect)
        /\ classifyCall' = [f EXCEPT
                !.curve_index = f.curve_index + 1,
                !.pc = "for_pair"]
        /\ UNCHANGED othersOfClassify

\* Line 346: the inner range is exhausted.
ClassifyNextSection ==
    LET f == classifyCall
    IN  /\ f.pc = "for_pair"
        /\ f.curve_index >= Len(f.nav_curve_sections)
        /\ classifyCall' = [f EXCEPT
                !.nav_curve_section_i = f.nav_curve_section_i + 1,
                !.pc = "for_section"]
        /\ UNCHANGED othersOfClassify

\* Line 353.
ClassifyReturn ==
    LET f == classifyCall
    IN  /\ f.pc = "for_section"
        /\ f.nav_curve_section_i >= Len(f.nav_curve_sections)
        /\ classifyCall' = [f EXCEPT !.pc = "return"]
        /\ UNCHANGED othersOfClassify

NextClassify ==
    \/ ClassifyTag
    \/ ClassifyCall
    \/ ClassifyCross
    \/ ClassifyNoCross
    \/ ClassifyNextSection
    \/ ClassifyReturn

SpecClassify == InitClassify /\ [][NextClassify]_vars

(***************************************************************************)
(* Properties of compute_curve_intersections.                              *)
(***************************************************************************)
IndexPairs(n) == {p \in (0..(n - 1)) \X (0..(n - 1)) : p[1] < p[2]}

\* The CROSS triples of the calls that returned a point, in call order.
RECURSIVE CrossOfCalls(_, _)
CrossOfCalls(calls, sections) ==
    IF calls = <<>>
    THEN <<>>
    ELSE LET c == Head(calls)
             rest == CrossOfCalls(Tail(calls), sections)
         IN  IF c.result.kind = "Vector"
             THEN <<<<sections[c.i + 1], sections[c.j + 1], c.result>>>> \o rest
             ELSE rest

\* C4: curves_intersect is called exactly once for each index pair (i, j)
\* with i < j, n*(n-1)/2 times, never with i = j or j < i, and CROSS holds
\* exactly the triples (curve i, curve j, point) of the calls that returned
\* a point.
C4_CrossBucket ==
    LET f == classifyCall
        n == Len(f.nav_curve_sections)
    IN  /\ f.pc # "idle" =>
              /\ \A k \in 1..Len(f.calls) : f.calls[k].i < f.calls[k].j
              /\ \A k, m \in 1..Len(f.calls) :
                     (f.calls[k].i = f.calls[m].i /\ f.calls[k].j = f.calls[m].j) => k = m
        /\ f.pc = "return" =>
              /\ 2 * Len(f.calls) = n * (n - 1)
              /\ {<<f.calls[k].i, f.calls[k].j>> : k \in 1..Len(f.calls)} = IndexPairs(n)
              /\ f.curve_dict.CROSS = CrossOfCalls(f.calls, f.nav_curve_sections)

\* C4 witness: three curves of which only the first two cross; CROSS holds
\* the one triple of that pair.
C4_Witness ==
    LET f == classifyCall
    IN  /\ f.pc = "return"
        /\ Len(f.nav_curve_sections) = 3
        /\ Len(f.calls) = 3
        /\ f.calls[1].result.kind = "Vector"
        /\ f.calls[2].result = NoPoint
        /\ f.calls[3].result = NoPoint
        /\ f.curve_dict.CROSS = <<<<f.nav_curve_sections[1], f.nav_curve_sections[2],
                                    f.calls[1].result>>>>

HasOutgoing(c) == c.NextCurves # -1
HasIncoming(c) == c.PrevCurves # -1
Tagged(sections) == [k \in 1..Len(sections) |-> <<sections[k], "None", 0>>]

\* C5: in the result, START holds one entry for each curve whose NextCurves
\* is not -1 and no other, END one entry for each curve whose PrevCurves is
\* not -1 and no other (a curve with both links is in both), and a single
\* curve with both sentinels leaves START, END and CROSS empty.
C5_StartEndBuckets ==
    LET f == classifyCall
    IN  f.pc = "return" =>
            /\ f.curve_dict.START = Tagged(SelectSeq(f.nav_curve_sections, HasOutgoing))
            /\ f.curve_dict.END = Tagged(SelectSeq(f.nav_curve_sections, HasIncoming))
            /\ (Len(f.nav_curve_sections) = 1
                /\ ~ HasOutgoing(f.nav_curve_sections[1])
                /\ ~ HasIncoming(f.nav_curve_sections[1])) =>
                   f.curve_dict = [START |-> <<>>, END |-> <<>>, CROSS |-> <<>>]

\* C5 witness: a result over a curve with both links, a curve with an
\* outgoing link only and a curve with no link.
C5_Witness ==
    LET f == classifyCall
        s == f.nav_curve_sections
    IN  /\ f.pc = "return"
        /\ Len(s) = 3
        /\ HasOutgoing(s[1]) /\ HasIncoming(s[1])
        /\ HasOutgoing(s[2]) /\ ~ HasIncoming(s[2])
        /\ ~ HasOutgoing(s[3]) /\ ~ HasIncoming(s[3])
        /\ Len(f.curve_dict.START) = 2
        /\ Len(f.curve_dict.END) = 1

(***************************************************************************)
(* smooth_curve, called on its own.                                        *)
(***************************************************************************)
MaxDen == 3

\* Waypoint positions and tangents.
Vectors == {<<0, 0, 0>>, <<1, 0, 0>>, <<-2, 1, 3>>, <<0, 2, -1>>, <<3, -1, 2>>}

\* The parameters k / d, d <= MaxDen, from below 0 to above 1.
Coefs == {Rat(k, d) : k \in (-1)..(MaxDen + 1), d \in 1..MaxDen}

InitSmooth ==
    /\ smoothCall \in {[pc |-> "call", point1 |-> p1, tang1 |-> t1, point2 |-> p2,
                        tang2 |-> t2, coef |-> c, pos |-> [v |-> NoVec, den |-> 1]] :
                       p1 \in Vectors, t1 \in Vectors, p2 \in Vectors, t2 \in Vectors,
                       c \in Coefs}
    /\ intersectCall = Idle
    /\ classifyCall = Idle
    /\ curveCall = Idle
    /\ lengthCall = Idle
    /\ directionCall = Idle

\* Lines 179-188.
SmoothCurveReturn ==
    LET f == smoothCall
    IN  /\ f.pc = "call"
        /\ smoothCall' = [f EXCEPT
                !.pos = smooth_curve(f.point1, f.tang1, f.point2, f.tang2, f.coef),
                !.pc = "return"]
        /\ UNCHANGED <<intersectCall, classifyCall, curveCall, lengthCall, directionCall>>

NextSmooth == SmoothCurveReturn

SpecSmooth == InitSmooth /\ [][NextSmooth]_vars

(***************************************************************************)
(* compute_smooth_curve_length                                             *)
(*                                                                         *)
(* The length of a chord is a square root; lenth, the sum of the chord     *)
(* lengths, is kept as the sequence of the squared chord lengths (lenth is *)
(* the sum of their square roots, 0.0 for the empty sequence).             *)
(***************************************************************************)
MaxSteps == 3

\* Two waypoints and their tangents.
Waypoints ==
    { [point1 |-> <<0, 0, 0>>, tang1 |-> <<0, 1, 0>>, point2 |-> <<3, 0, 0>>, tang2 |-> <<0, 1, 0>>],
      [point1 |-> <<0, 0, 0>>, tang1 |-> <<1, 0, 0>>, point2 |-> <<2, 2, 0>>, tang2 |-> <<0, 1, 0>>],
      [point1 |-> <<-1, 0, 2>>, tang1 |-> <<0, 0, 1>>, point2 |-> <<1, 3, 0>>, tang2 |-> <<-1, 0, 0>>],
      [point1 |-> <<1, 1, 1>>, tang1 |-> <<0, 1, 0>>, point2 |-> <<1, 1, 1>>, tang2 |-> <<0, 1, 0>>],
      [point1 |-> <<2, 0, -3>>, tang1 |-> <<0, -1, 0>>, point2 |-> <<-2, 0, 3>>, tang2 |-> <<0, 0, 1>>],
      [point1 |-> <<0, 4, 0>>, tang1 |-> <<0, 0, -1>>, point2 |-> <<0, 0, 0>>, tang2 |-> <<1, 0, 0>>] }

\* le.length squared, for le = start_pos - cpos (lines 214-215).
SquaredDistance(start_pos, cpos) ==
    LET scale == start_pos.den * cpos.den
        a == AtScale(start_pos, scale)
        b == AtScale(cpos, scale)
    IN  Rat((a[1] - b[1]) * (a[1] - b[1]) + (a[2] - b[2]) * (a[2] - b[2])
            + (a[3] - b[3]) * (a[3] - b[3]), scale * scale)

LengthFrame(w, measure_steps) ==
    [pc |-> "start", point1 |-> w.point1, tang1 |-> w.tang1, point2 |-> w.point2,
     tang2 |-> w.tang2, measure_steps |-> measure_steps,
     step_size |-> Zero, coef |-> Zero, lenth |-> <<>>,
     start_pos |-> [v |-> NoVec, den |-> 1], ii |-> 0]

InitLength ==
    /\ lengthCall \in {LengthFrame(w, n) : w \in Waypoints, n \in (0 - MaxSteps)..MaxSteps}
    /\ intersectCall = Idle
    /\ classifyCall = Idle
    /\ curveCall = Idle
    /\ smoothCall = Idle
    /\ directionCall = Idle

othersOfLength == <<intersectCall, classifyCall, curveCall, smoothCall, directionCall>>

\* Line 208 with measure_steps = 0: the division raises ZeroDivisionError.
LengthRaise ==
    LET f == lengthCall
    IN  /\ f.pc = "start"
        /\ f.measure_steps = 0
        /\ lengthCall' = [f EXCEPT !.pc = "raise"]
        /\ UNCHANGED othersOfLength

\* Lines 208-211.
LengthSetup ==
    LET f == lengthCall
    IN  /\ f.pc = "start"
        /\ f.measure_steps # 0
        /\ lengthCall' = [f EXCEPT
                !.step_size = Rat(1, f.measure_steps),
                !.coef = Rat(1, f.measure_steps),
                !.lenth = <<>>,
                !.start_pos = [v |-> f.point1, den |-> 1],
                !.ii = 0,
                !.pc = "loop"]
        /\ UNCHANGED othersOfLength

\* Lines 212-217: one sample.
LengthStep ==
    LET f == lengthCall
        cpos == smooth_curve(f.point1, f.tang1, f.point2, f.tang2, f.coef)
    IN  /\ f.pc = "loop"
        /\ f.ii < f.measure_steps
        /\ lengthCall' = [f EXCEPT
                !.lenth = Append(@, SquaredDistance(f.start_pos, cpos)),
                !.start_pos = cpos,
                !.coef = RatAdd(f.coef, f.step_size),
                !.ii = f.ii + 1]
        /\ UNCHANGED othersOfLength

\* Line 218.
LengthReturn ==
    LET f == lengthCall
    IN  /\ f.pc = "loop"
        /\ f.ii >= f.measure_steps
        /\ lengthCall' = [f EXCEPT !.pc = "return"]
        /\ UNCHANGED othersOfLength

NextLength ==
    \/ LengthRaise
    \/ LengthSetup
    \/ LengthStep
    \/ LengthReturn

SpecLength == InitLength /\ [][NextLength]_vars

(***************************************************************************)
(* compute_curve                                                           *)
(*                                                                         *)
(* tang1 and tang2 are the rotations of (0, 1, 0) by the orientations of   *)
(* obj_0 and obj_1, unit vectors.  le, the length measured in 300 steps, is *)
(* a sum of 300 square roots: the model lets le be any of the lengths      *)
(* 0..MaxLength.                                                           *)
(***************************************************************************)
MaxCurveSteps == 3
MaxLength == 3

\* coef computed by floor division.
CoefFloorDivision(segment, curve_steps) == Rat(segment \div curve_steps, 1)

\* coef = float(segment / curve_steps), line 250.
Coef(segment, curve_steps) == Rat(segment, curve_steps)

\* smooth_curve(point1, tang1 * (le / 3), point2, tang2 * (le / 3), coef),
\* line 252: three times the control points are integers.
CurvePoint(point1, tang1, point2, tang2, le, coef) ==
    LET p == smooth_curve([k \in 1..3 |-> 3 * point1[k]], [k \in 1..3 |-> le * tang1[k]],
                          [k \in 1..3 |-> 3 * point2[k]], [k \in 1..3 |-> le * tang2[k]],
                          coef)
    IN  [v |-> p.v, den |-> 3 * p.den]

\* The frame on entry; coefs is the history of the values of coef.
CurveFrame(w, curve_steps) ==
    [pc |-> "start", point1 |-> w.point1, tang1 |-> w.tang1, point2 |-> w.point2,
     tang2 |-> w.tang2, curve_steps |-> curve_steps, le |-> 0, segment |-> 0,
     curve_points |-> <<>>, coefs |-> <<>>]

InitCurve ==
    /\ curveCall \in {CurveFrame(w, n) : w \in Waypoints,
                                         n \in (0 - MaxCurveSteps)..MaxCurveSteps}
    /\ intersectCall = Idle
    /\ classifyCall = Idle
    /\ lengthCall = Idle
    /\ smoothCall = Idle
    /\ directionCall = Idle

othersOfCurve == <<intersectCall, classifyCall, lengthCall, smoothCall, directionCall>>

\* Lines 224-227.
CurveMeasure ==
    LET f == curveCall
    IN  /\ f.pc = "start"
        /\ \E le \in 0..MaxLength :
               curveCall' = [f EXCEPT !.le = le, !.curve_points = <<>>, !.segment = 0,
                                      !.pc = "loop"]
        /\ UNCHANGED othersOfCurve

\* Lines 249-254: one point.
CurveStep ==
    LET f == curveCall
        coef == Coef(f.segment, f.curve_steps)
    IN  /\ f.pc = "loop"
        /\ f.segment < f.curve_steps
        /\ curveCall' = [f EXCEPT
                !.curve_points = Append(@, CurvePoint(f.point1, f.tang1, f.point2, f.tang2,
                                                      f.le, coef)),
                !.coefs = Append(@, coef),
                !.segment = f.segment + 1]
        /\ UNCHANGED othersOfCurve

\* Lines 256-257: the last point.
CurveReturn ==
    LET f == curveCall
    IN  /\ f.pc = "loop"
        /\ f.segment >= f.curve_steps
        /\ curveCall' = [f EXCEPT
                !.curve_points = Append(@, [v |-> f.point2, den |-> 1]),
                !.pc = "return"]
        /\ UNCHANGED othersOfCurve

NextCurve ==
    \/ CurveMeasure
    \/ CurveStep
    \/ CurveReturn

SpecCurve == InitCurve /\ [][NextCurve]_vars

(***************************************************************************)
(* set_direction                                                           *)
(*                                                                         *)
(* A component of forward is a float: units * 0.00005 (half of epsilon),   *)
(* or, with units = 0, tiny * 1e-30.  An angle is an integer a = 4 * k + r *)
(* with k a whole number of degrees: r = 0 is exactly k degrees, r = 1 is  *)
(* k degrees plus less than 1e-20, r = 2 an angle strictly between k and   *)
(* k + 1 degrees at more than 1e-20 from both, r = 3 is k + 1 degrees      *)
(* minus less than 1e-20.  The integers order the angles.                  *)
(***************************************************************************)
MaxComponent == 3

\* epsilon = 0.0001, in units.
direction_epsilon == 2

Component(units, tiny) == [units |-> units, tiny |-> tiny]

Components ==
    {Component(u, 0) : u \in (0 - MaxComponent)..MaxComponent}
        \cup {Component(0, 1), Component(0, -1)}

Sign(x) == IF x < 0 THEN -1 ELSE IF x > 0 THEN 1 ELSE 0

\* The sign of the float c.
SignOf(c) == IF c.units # 0 THEN Sign(c.units) ELSE c.tiny

\* A whole number of degrees.
Degrees(k) == 4 * k

\* tan(k degrees)^2 * 10000 to the nearest integer, k = 1..89.
TanSquared ==
    << 3, 12, 27, 49, 77, 110, 151, 198, 251, 311,
       378, 452, 533, 622, 718, 822, 935, 1056, 1186, 1325,
       1474, 1632, 1802, 1982, 2174, 2379, 2596, 2827, 3073, 3333,
       3610, 3905, 4217, 4550, 4903, 5279, 5678, 6104, 6558, 7041,
       7557, 8107, 8696, 9326, 10000, 10723, 11500, 12335, 13233, 14203,
       15250, 16383, 17610, 18944, 20396, 21980, 23712, 25611, 27698, 30000,
       32546, 35371, 38518, 42037, 45989, 50447, 55500, 61261, 67865, 75486,
       84344, 94721, 106985, 121621, 139282, 160864, 187617, 221335, 264664, 321634,
       398635, 506285, 663304, 905231, 1306461, 2045091, 3640898, 8200350, 32821397 >>

\* The angle in [0, 90] whose squared tangent is num / den (num, den >= 0,
\* not both 0). tan(k degrees)^2 is rational for k = 0, 30, 45, 60 and 90 only,
\* and 1/3 and 3 are no ratio of two squares or of a square and a sum of two
\* squares: the angle is a whole number of degrees at 0, 45 and 90 only.
DegreesOfTanSquared(num, den) ==
    IF den = 0 THEN Degrees(90)
    ELSE LET below == {k \in 0..89 : k = 0 \/ TanSquared[k] * den <= num * 10000}
             k == CHOOSE m \in below : \A o \in below : o <= m
         IN  IF num = 0 \/ num = den THEN Degrees(k) ELSE Degrees(k) + 2

\* math.degrees(math.atan(forward[0] / forward[2])) of line 92, z.units # 0:
\* a tiny x over z is at most 1e-26, and the angle keeps its sign.
AtanDegrees(x, z) ==
    IF x.units = 0 THEN x.tiny * Sign(z.units)
    ELSE Sign(x.units) * Sign(z.units)
             * DegreesOfTanSquared(x.units * x.units, z.units * z.units)

\* forward[1] / length as its signed square y * |y| / length^2, which orders
\* as y / length does.
SignedSquareRatio(y, length_squared) == Rat(y * Abs(y), length_squared)

\* v_clamp (lines 44-49), on signed squares.
v_clamp(num, minimum, maximum) ==
    IF RatLess(num, minimum) THEN minimum
    ELSE IF RatLess(maximum, num) THEN maximum
    ELSE num

\* math.degrees(math.asin(r)) for r given by its signed square q: the
\* squared tangent of the angle is r^2 / (1 - r^2).
AsinDegrees(q) == Sign(q.num) * DegreesOfTanSquared(Abs(q.num), q.den - Abs(q.num))

\* length(forward) squared, lines 41-42, in units squared: the square of a
\* tiny component, 1e-60, is below epsilon squared and is lost in the sum
\* with the square of a unit.
LengthSquared(vec) ==
    vec[1].units * vec[1].units + vec[2].units * vec[2].units
        + vec[3].units * vec[3].units

\* The pitch of line 63, as the real number it approximates; a tiny
\* forward[1] over a length of at least epsilon gives a tiny angle.
Pitch(forward) ==
    IF forward[2].units = 0 THEN forward[2].tiny
    ELSE AsinDegrees(v_clamp(SignedSquareRatio(forward[2].units, LengthSquared(forward)),
                             Rat(-1, 1), Rat(1, 1)))

\* angle_bound of lines 94-97.
AngleBound(angle) == IF angle < 0 THEN Degrees(360) ELSE Degrees(0)

\* The float sum of an angle and a whole number of degrees (lines 98 and
\* 100): a difference below 1e-20 from a nonzero whole number of degrees is
\* under half a unit in its last place (1.4e-14 at 180, 2.8e-14 at 360) and
\* the sum rounds to that number; adding 0.0 changes nothing.
FloatAdd(angle, whole) ==
    IF whole = 0 THEN angle
    ELSE IF angle % 4 = 1 /\ angle - 1 + whole # 0 THEN angle - 1 + whole
    ELSE IF angle % 4 = 3 /\ angle + 1 + whole # 0 THEN angle + 1 + whole
    ELSE angle + whole

InitDirection ==
    /\ directionCall \in {[pc |-> "call", forward |-> <<x, y, z>>,
                           pitch |-> 0, roll |-> 0, yaw |-> 0] :
                          x \in Components, y \in Components, z \in Components}
    /\ intersectCall = Idle
    /\ classifyCall = Idle
    /\ curveCall = Idle
    /\ lengthCall = Idle
    /\ smoothCall = Idle

othersOfDirection == <<intersectCall, classifyCall, curveCall, lengthCall, smoothCall>>

\* length < epsilon (line 53).
IsDegenerate(forward) ==
    LengthSquared(forward) < direction_epsilon * direction_epsilon

\* math.fabs(forward[2]) < epsilon (line 67).
IsInPlane(forward) == Abs(forward[3].units) < direction_epsilon

\* Lines 52-57: a degenerate forward vector.
DirectionDegenerate ==
    LET f == directionCall
    IN  /\ f.pc = "call"
        /\ IsDegenerate(f.forward)
        /\ directionCall' = [f EXCEPT !.pitch = 0, !.roll = 0, !.yaw = 0, !.pc = "return"]
        /\ UNCHANGED othersOfDirection

\* Lines 60-75: forward (almost) in the XY plane.
DirectionInPlane ==
    LET f == directionCall
    IN  /\ f.pc = "call"
        /\ ~ IsDegenerate(f.forward)
        /\ IsInPlane(f.forward)
        /\ directionCall' = [f EXCEPT
                !.roll = 0,
                !.pitch = Pitch(f.forward),
                !.yaw = IF SignOf(f.forward[1]) < 0 THEN Degrees(90)
                        ELSE IF SignOf(f.forward[1]) > 0 THEN Degrees(270)
                        ELSE Degrees(0),
                !.pc = "return"]
        /\ UNCHANGED othersOfDirection

\* Lines 60-63 and 92-102: the azimuthal angle.
DirectionAzimuth ==
    LET f == directionCall
        angle == AtanDegrees(f.forward[1], f.forward[3])
    IN  /\ f.pc = "call"
        /\ ~ IsDegenerate(f.forward)
        /\ ~ IsInPlane(f.forward)
        /\ directionCall' = [f EXCEPT
                !.roll = 0,
                !.pitch = Pitch(f.forward),
                !.yaw = IF SignOf(f.forward[3]) < 0
                        THEN FloatAdd(angle, AngleBound(angle))
                        ELSE FloatAdd(angle, Degrees(180)),
                !.pc = "return"]
        /\ UNCHANGED othersOfDirection

NextDirection ==
    \/ DirectionDegenerate
    \/ DirectionInPlane
    \/ DirectionAzimuth

SpecDirection == InitDirection /\ [][NextDirection]_vars

(***************************************************************************)
(* Properties of set_direction.                                            *)
(***************************************************************************)
\* C9: the yaw lies in [0, 360); it is 0 for a degenerate vector; else, for
\* |forward.z| < 0.0001, it is 90, 270 or 0 as forward.x is negative,
\* positive or zero; else it lies in (90, 270) for a positive forward.z and
\* in (270, 360) or [0, 90) for a negative forward.z.
C9_YawRange ==
    LET f == directionCall
        x == SignOf(f.forward[1])
        z == f.forward[3].units
        degenerate == LengthSquared(f.forward) < direction_epsilon * direction_epsilon
    IN  f.pc = "return" =>
            /\ Degrees(0) <= f.yaw /\ f.yaw < Degrees(360)
            /\ degenerate => f.yaw = Degrees(0)
            /\ (~ degenerate /\ Abs(z) < direction_epsilon) =>
                   f.yaw = (IF x < 0 THEN Degrees(90)
                            ELSE IF x > 0 THEN Degrees(270)
                            ELSE Degrees(0))
            /\ (~ degenerate /\ z >= direction_epsilon) =>
                   (Degrees(90) < f.yaw /\ f.yaw < Degrees(270))
            /\ (~ degenerate /\ z <= 0 - direction_epsilon) =>
                   \/ Degrees(270) < f.yaw /\ f.yaw < Degrees(360)
                   \/ Degrees(0) <= f.yaw /\ f.yaw < Degrees(90)

\* The yaw of a call is 360 only for a forward.x of 1e-30 and a forward.z
\* of at most -0.0001.
YawIs360OnlyForTinyNegativeAngle ==
    LET f == directionCall
    IN  (f.pc = "return" /\ f.yaw >= Degrees(360)) =>
            /\ f.yaw = Degrees(360)
            /\ f.forward[1] = Component(0, 1)
            /\ f.forward[3].units <= 0 - direction_epsilon

(***************************************************************************)
(* Properties of smooth_curve.                                             *)
(***************************************************************************)
\* The point p is the vector w.
IsVector(p, w) == \A k \in 1..3 : p.v[k] = p.den * w[k]

\* C8: smooth_curve at coef 0 is point1 and at coef 1 is point2, whatever
\* the tangents; the Bernstein weights are (1, 0, 0, 0) at 0 and
\* (0, 0, 0, 1) at 1.
C8_Endpoints ==
    LET f == smoothCall
    IN  f.pc = "return" =>
            /\ f.coef = Rat(0, 1) =>
                   (IsVector(f.pos, f.point1) /\ compute_bernstein(f.coef) = <<1, 0, 0, 0>>)
            /\ f.coef = Rat(1, 1) =>
                   (IsVector(f.pos, f.point2) /\ compute_bernstein(f.coef) = <<0, 0, 0, 1>>)

\* C8 witness: the end of a curve with two different nonzero tangents.
C8_Witness ==
    LET f == smoothCall
    IN  /\ f.pc = "return"
        /\ f.coef = Rat(1, 1)
        /\ f.point1 # f.point2
        /\ f.tang1 # <<0, 0, 0>>
        /\ f.tang2 # <<0, 0, 0>>
        /\ f.tang1 # f.tang2
        /\ IsVector(f.pos, f.point2)

(***************************************************************************)
(* Properties of compute_smooth_curve_length and compute_curve.            *)
(***************************************************************************)
\* C7 as stated, for compute_smooth_curve_length: a call with zero or
\* negative measure_steps never returns a length.
C7_AsStated ==
    lengthCall.pc = "return" => lengthCall.measure_steps >= 1

\* C7 as stated, for curves_intersect: a call with zero or negative
\* part_count never returns a result.
C7_AsStatedIntersect ==
    intersectCall.pc = "return" => intersectCall.part_count >= 1

\* The coefs of a call are strictly increasing.
StrictlyIncreasing(coefs) ==
    \A k \in 1..(Len(coefs) - 1) : RatLess(coefs[k], coefs[k + 1])

\* What C6 states apart from "not all zero": num_steps + 1 points, point k
\* the curve's point at k / num_steps, the coefs strictly increasing, the
\* first point w1 and the last point w2 itself.
DiscretizePoints(f) ==
    /\ Len(f.curve_points) = f.curve_steps + 1
    /\ Len(f.coefs) = f.curve_steps
    /\ \A k \in 0..(f.curve_steps - 1) :
           /\ f.coefs[k + 1] = Rat(k, f.curve_steps)
           /\ f.curve_points[k + 1] =
                  CurvePoint(f.point1, f.tang1, f.point2, f.tang2, f.le, f.coefs[k + 1])
    /\ StrictlyIncreasing(f.coefs)
    /\ IsVector(f.curve_points[1], f.point1)
    /\ f.curve_points[f.curve_steps + 1] = [v |-> f.point2, den |-> 1]

\* C6 as stated: for every num_steps >= 1 the above, and the coefs are not
\* all zero.
C6_AsStated ==
    LET f == curveCall
    IN  (f.pc = "return" /\ f.curve_steps >= 1) =>
            /\ DiscretizePoints(f)
            /\ \E k \in 1..Len(f.coefs) : f.coefs[k].num # 0

\* C6 amended: for every num_steps >= 1 the above, and the coefs are not
\* all zero when num_steps >= 2 (num_steps = 1 has the one coef 0).
C6_Discretize ==
    LET f == curveCall
    IN  (f.pc = "return" /\ f.curve_steps >= 1) =>
            /\ DiscretizePoints(f)
            /\ f.curve_steps >= 2 => \E k \in 1..Len(f.coefs) : f.coefs[k].num # 0
            /\ f.curve_steps = 1 => f.coefs = <<Zero>>

\* C6 witness: three steps on a curve between two different waypoints with
\* a nonzero length.
C6_Witness ==
    LET f == curveCall
    IN  /\ f.pc = "return"
        /\ f.curve_steps = 3
        /\ f.le > 0
        /\ f.point1 # f.point2
        /\ Len(f.curve_points) = 4

====
